---- MODULE Spec2Model ----
(***************************************************************************)
(* Model of packages/util/src/account.ts (the Account record, its          *)
(* factories, predicates and codecs) and of validateYParity in             *)
(* packages/tx/src/capabilities/eip2718.ts.                                *)
(*                                                                         *)
(* Byte strings are sequences of 0..255.  A nullable field is an option:  *)
(* Null is the empty tuple, a present value v is the one-element tuple    *)
(* <<v>>.  A constructor argument is a record with k in {"undefined",     *)
(* "null", "value"}.  A call's outcome is Ok(v) or Err(kind).              *)
(***************************************************************************)
EXTENDS Integers, Sequences, FiniteSets, TLC

VARIABLES acct, op, body, tx

vars == <<acct, op, body, tx>>

----------------------------------------------------------------------------
(* Values *)

Null == <<>>
Some(v) == <<v>>
IsNull(x) == Len(x) = 0
Val(x) == x[1]

Undef == [k |-> "undefined"]
ArgNull == [k |-> "null"]
Arg(v) == [k |-> "value", v |-> v]

Ok(v) == [ok |-> TRUE, v |-> v]
Err(e) == [ok |-> FALSE, err |-> e]

Fields == {"nonce", "balance", "storageRoot", "codeHash", "codeSize", "version"}
HashFields == {"storageRoot", "codeHash"}

BIGINT_0 == 0
BIGINT_1 == 1
HashLen == 32

KECCAK256_NULL ==
  <<197, 210, 70, 1, 134, 247, 35, 60, 146, 126, 125, 178, 220, 199, 3, 192,
    229, 0, 182, 83, 202, 130, 39, 59, 123, 250, 216, 4, 93, 133, 164, 112>>

KECCAK256_RLP ==
  <<86, 232, 31, 23, 27, 204, 85, 166, 255, 131, 69, 230, 146, 192, 248, 110,
    91, 72, 224, 27, 153, 108, 173, 192, 1, 98, 47, 181, 227, 99, 180, 33>>

emptyUint8Arr == <<>>

equalsBytes(a, b) == a = b

----------------------------------------------------------------------------
(* Integer <-> byte conversions (bytes.ts) *)

RECURSIVE bigIntToUnpaddedBytes(_)
bigIntToUnpaddedBytes(n) ==
  IF n = 0 THEN <<>>
  ELSE Append(bigIntToUnpaddedBytes(n \div 256), n % 256)

intToUnpaddedBytes(n) == bigIntToUnpaddedBytes(n)

RECURSIVE bytesToBigInt(_)
bytesToBigInt(b) ==
  IF Len(b) = 0 THEN 0
  ELSE bytesToBigInt(SubSeq(b, 1, Len(b) - 1)) * 256 + b[Len(b)]

bytesToInt(b) == bytesToBigInt(b)

\* toBytes of a non-negative integer: even-padded hex, so 0 is the byte 00.
toBytes(n) == IF n = 0 THEN <<0>> ELSE bigIntToUnpaddedBytes(n)

----------------------------------------------------------------------------
(* RLP (packages/rlp) on items: a byte string B(b) or a list L(items) *)

B(b) == [t |-> "bytes", b |-> b]
L(items) == [t |-> "list", items |-> items]

EncodeLength(len, offset) ==
  IF len < 56 THEN <<offset + len>>
  ELSE LET lb == bigIntToUnpaddedBytes(len)
       IN  <<offset + 55 + Len(lb)>> \o lb

RECURSIVE RlpEncode(_), RlpEncodeItems(_)
RlpEncode(x) ==
  IF x.t = "bytes"
  THEN IF Len(x.b) = 1 /\ x.b[1] < 128 THEN x.b
       ELSE EncodeLength(Len(x.b), 128) \o x.b
  ELSE LET payload == RlpEncodeItems(x.items)
       IN  EncodeLength(Len(payload), 192) \o payload
RlpEncodeItems(items) ==
  IF Len(items) = 0 THEN <<>>
  ELSE RlpEncode(Head(items)) \o RlpEncodeItems(Tail(items))

DecFail == [ok |-> FALSE]
DecOk(data, rest) == [ok |-> TRUE, data |-> data, rest |-> rest]

RECURSIVE RlpDecodeOne(_), RlpDecodeAll(_)
\* one item off the front of s, with the remainder
RlpDecodeOne(s) ==
  IF Len(s) = 0 THEN DecFail
  ELSE LET f == s[1] IN
    IF f <= 127 THEN DecOk(B(<<f>>), Tail(s))
    ELSE IF f <= 183 THEN
      LET len == f - 128 IN
        IF Len(s) < 1 + len THEN DecFail
        ELSE IF len = 1 /\ s[2] < 128 THEN DecFail
        ELSE DecOk(B(SubSeq(s, 2, 1 + len)), SubSeq(s, 2 + len, Len(s)))
    ELSE IF f <= 191 THEN
      LET llen == f - 183 IN
        IF Len(s) < 1 + llen \/ s[2] = 0 THEN DecFail
        ELSE LET len == bytesToBigInt(SubSeq(s, 2, 1 + llen)) IN
          IF len <= 55 \/ Len(s) < 1 + llen + len THEN DecFail
          ELSE DecOk(B(SubSeq(s, 2 + llen, 1 + llen + len)),
                     SubSeq(s, 2 + llen + len, Len(s)))
    ELSE IF f <= 247 THEN
      LET len == f - 192 IN
        IF Len(s) < 1 + len THEN DecFail
        ELSE LET inner == RlpDecodeAll(SubSeq(s, 2, 1 + len)) IN
          IF ~inner.ok THEN DecFail
          ELSE DecOk(L(inner.data), SubSeq(s, 2 + len, Len(s)))
    ELSE
      LET llen == f - 247 IN
        IF Len(s) < 1 + llen \/ s[2] = 0 THEN DecFail
        ELSE LET len == bytesToBigInt(SubSeq(s, 2, 1 + llen)) IN
          IF len < 56 \/ Len(s) < 1 + llen + len THEN DecFail
          ELSE LET inner == RlpDecodeAll(SubSeq(s, 2 + llen, 1 + llen + len)) IN
            IF ~inner.ok THEN DecFail
            ELSE DecOk(L(inner.data), SubSeq(s, 2 + llen + len, Len(s)))
\* every item of s, in order
RlpDecodeAll(s) ==
  IF Len(s) = 0 THEN DecOk(<<>>, <<>>)
  ELSE LET d == RlpDecodeOne(s) IN
    IF ~d.ok THEN DecFail
    ELSE LET r == RlpDecodeAll(d.rest) IN
      IF ~r.ok THEN DecFail ELSE DecOk(<<d.data>> \o r.data, <<>>)

\* RLP.decode: one item and no remainder
RlpDecode(s) ==
  LET d == RlpDecodeOne(s) IN
    IF d.ok /\ Len(d.rest) = 0 THEN Ok(d.data) ELSE Err("InvalidInput")

----------------------------------------------------------------------------
(* The Account class *)

\* Parameter defaults of the constructor
Default(f) ==
  CASE f = "nonce" -> Some(BIGINT_0)
    [] f = "balance" -> Some(BIGINT_0)
    [] f = "storageRoot" -> Some(KECCAK256_RLP)
    [] f = "codeHash" -> Some(KECCAK256_NULL)
    [] f = "codeSize" -> Some(0)
    [] f = "version" -> Some(0)

\* undefined takes the default, null is retained
Resolve(f, a) ==
  IF a.k = "undefined" THEN Default(f)
  ELSE IF a.k = "null" THEN Null
  ELSE Some(a.v)

\* get <field>()
Get(a, f) == IF ~IsNull(a[f]) THEN Ok(Val(a[f])) ELSE Err("NotLoaded")

\* a setter that re-runs the bound check and drops a value that fails it
Set_Checked(a, f, v) ==
  IF f \in {"storageRoot", "codeHash"}
  THEN IF Len(v) = HashLen THEN [a EXCEPT ![f] = Some(v)] ELSE a
  ELSE IF v >= 0 THEN [a EXCEPT ![f] = Some(v)] ELSE a

\* set <field>(v)
Set(a, f, v) == [a EXCEPT ![f] = Some(v)]

\* isContract deciding on the code hash alone
isContract_HashOnly(a) ==
  IF IsNull(a.codeHash) /\ IsNull(a.codeSize) THEN Err("MissingData")
  ELSE Ok(~IsNull(a.codeHash) /\ ~equalsBytes(Val(a.codeHash), KECCAK256_NULL))

isContract(a) ==
  IF IsNull(a.codeHash) /\ IsNull(a.codeSize) THEN Err("MissingData")
  ELSE Ok(    (~IsNull(a.codeHash) /\ ~equalsBytes(Val(a.codeHash), KECCAK256_NULL))
           \/ (~IsNull(a.codeSize) /\ Val(a.codeSize) # 0))

_validate(a) ==
  IF ~IsNull(a.nonce) /\ Val(a.nonce) < BIGINT_0 THEN Err("InvalidInput")
  ELSE IF ~IsNull(a.balance) /\ Val(a.balance) < BIGINT_0 THEN Err("InvalidInput")
  ELSE IF ~IsNull(a.storageRoot) /\ Len(Val(a.storageRoot)) # HashLen THEN Err("InvalidInput")
  ELSE IF ~IsNull(a.codeHash) /\ Len(Val(a.codeHash)) # HashLen THEN Err("InvalidInput")
  ELSE IF ~IsNull(a.codeSize) /\ Val(a.codeSize) < BIGINT_0 THEN Err("InvalidInput")
  ELSE Ok(a)

\* the constructor inferring codeSize without the test that codeHash is given:
\* isContract is then called, and throws, with both fields null
NewAccount_Unguarded(d) ==
  LET codeHash == Resolve("codeHash", d.codeHash)
      assigned == [nonce |-> Resolve("nonce", d.nonce),
                   balance |-> Resolve("balance", d.balance),
                   storageRoot |-> Resolve("storageRoot", d.storageRoot),
                   codeHash |-> codeHash,
                   codeSize |-> Null,
                   version |-> Null]
      given == Resolve("codeSize", d.codeSize)
      contract == isContract(assigned)
  IN  IF IsNull(given) /\ ~contract.ok THEN contract
      ELSE _validate([assigned EXCEPT
                        !.codeSize = IF IsNull(given) /\ ~contract.v
                                     THEN Some(0) ELSE given,
                        !.version = Resolve("version", d.version)])

\* new Account(d.nonce, d.balance, d.storageRoot, d.codeHash, d.codeSize, d.version)
NewAccount(d) ==
  LET codeHash == Resolve("codeHash", d.codeHash)
      assigned == [nonce |-> Resolve("nonce", d.nonce),
                   balance |-> Resolve("balance", d.balance),
                   storageRoot |-> Resolve("storageRoot", d.storageRoot),
                   codeHash |-> codeHash,
                   codeSize |-> Null,
                   version |-> Null]
      given == Resolve("codeSize", d.codeSize)
      codeSize == IF IsNull(given) /\ ~IsNull(codeHash) /\ ~isContract(assigned).v
                  THEN Some(0) ELSE given
  IN  _validate([assigned EXCEPT !.codeSize = codeSize,
                                 !.version = Resolve("version", d.version)])

\* first failure of a sequence of outcomes, else Ok of their values
RECURSIVE AllOk(_)
AllOk(rs) ==
  IF Len(rs) = 0 THEN Ok(<<>>)
  ELSE IF ~Head(rs).ok THEN Head(rs)
  ELSE LET rest == AllOk(Tail(rs)) IN
    IF ~rest.ok THEN rest ELSE Ok(<<Head(rs).v>> \o rest.v)

\* bigIntToUnpaddedBytes / intToUnpaddedBytes as called: a negative value throws
Unpadded(n) == IF n < 0 THEN Err("InvalidInput") ELSE Ok(B(bigIntToUnpaddedBytes(n)))

\* raw() with balance written before nonce
raw_Swapped(a) ==
  LET num(f) == LET x == Get(a, f) IN IF x.ok THEN Unpadded(x.v) ELSE x
      hash(f) == LET x == Get(a, f) IN IF x.ok THEN Ok(B(x.v)) ELSE x
  IN  AllOk(<<num("balance"), num("nonce"), hash("storageRoot"), hash("codeHash")>>)

raw(a) ==
  LET num(f) == LET x == Get(a, f) IN IF x.ok THEN Unpadded(x.v) ELSE x
      hash(f) == LET x == Get(a, f) IN IF x.ok THEN Ok(B(x.v)) ELSE x
  IN  AllOk(<<num("nonce"), num("balance"), hash("storageRoot"), hash("codeHash")>>)

serialize(a) ==
  LET r == raw(a) IN IF r.ok THEN Ok(RlpEncode(L(r.v))) ELSE r

serializeWithPartialInfo(a) ==
  LET zeroEncoded == B(intToUnpaddedBytes(0))
      oneEncoded == B(intToUnpaddedBytes(1))
      num(f) == IF ~IsNull(a[f])
                THEN LET e == Unpadded(Val(a[f])) IN
                     IF e.ok THEN Ok(L(<<oneEncoded, e.v>>)) ELSE e
                ELSE Ok(L(<<zeroEncoded>>))
      hash(f) == IF ~IsNull(a[f]) THEN Ok(L(<<oneEncoded, B(Val(a[f]))>>))
                 ELSE Ok(L(<<zeroEncoded>>))
      partialData == AllOk(<<num("nonce"), num("balance"), hash("storageRoot"),
                             hash("codeHash"), num("codeSize"), num("version")>>)
  IN  IF partialData.ok THEN Ok(RlpEncode(L(partialData.v))) ELSE partialData

\* isEmpty with the nonce test guarded by "nonce present"
isEmpty_NonceGuarded(a) ==
  LET present(f) == ~IsNull(a[f])
      shortCircuit ==
        \/ (present("balance") /\ Val(a.balance) # BIGINT_0)
        \/ (present("nonce") /\ Val(a.nonce) # BIGINT_0)
        \/ (present("codeHash") /\ ~equalsBytes(Val(a.codeHash), KECCAK256_NULL))
  IN  IF shortCircuit THEN Ok(FALSE)
      ELSE IF ~present("balance") \/ ~present("nonce") \/ ~present("codeHash")
      THEN Err("NotLoaded")
      ELSE Ok(TRUE)

isEmpty(a) ==
  LET balance == Get(a, "balance")
      nonce == Get(a, "nonce")
      codeHash == Get(a, "codeHash")
      nonZero(r) == IF r.ok THEN Ok(r.v # BIGINT_0) ELSE r
      isZero(r) == IF r.ok THEN Ok(r.v = BIGINT_0) ELSE r
      hasCode(r) == IF r.ok THEN Ok(~equalsBytes(r.v, KECCAK256_NULL)) ELSE r
      noCode(r) == IF r.ok THEN Ok(equalsBytes(r.v, KECCAK256_NULL)) ELSE r
      \* x && y and x || y over outcomes, left to right, a throw propagating
      And(x, y) == IF ~x.ok THEN x ELSE IF x.v THEN y ELSE Ok(FALSE)
      Or(x, y) == IF ~x.ok THEN x ELSE IF x.v THEN Ok(TRUE) ELSE y
      shortCircuit ==
        Or(And(Ok(~IsNull(a.balance)), nonZero(balance)),
           Or(And(Ok(IsNull(a.nonce)), nonZero(nonce)),
              And(Ok(~IsNull(a.codeHash)), hasCode(codeHash))))
  IN  IF ~shortCircuit.ok THEN shortCircuit
      ELSE IF shortCircuit.v THEN Ok(FALSE)
      ELSE And(isZero(balance), And(isZero(nonce), noCode(codeHash)))

----------------------------------------------------------------------------
(* Factories and decoders *)

\* bytesToBigInt(toBytes(v)) / bytesToInt(toBytes(v)) of a present argument:
\* toBytes rejects a negative number
Coerce(a) ==
  IF a.k # "value" THEN Ok(a)
  ELSE IF a.v < 0 THEN Err("InvalidInput")
  ELSE Ok(Arg(bytesToBigInt(toBytes(a.v))))

\* toBytes of a byte string is that byte string
CoerceBytes(a) == Ok(a)

createAccount(d) ==
  IF d.nonce.k = "null" \/ d.balance.k = "null" \/ d.storageRoot.k = "null"
     \/ d.codeHash.k = "null"
  THEN Err("UnsupportedOperation")
  ELSE LET c == AllOk(<<Coerce(d.nonce), Coerce(d.balance),
                        CoerceBytes(d.storageRoot), CoerceBytes(d.codeHash)>>)
       IN  IF ~c.ok THEN c
           ELSE NewAccount([nonce |-> c.v[1], balance |-> c.v[2],
                            storageRoot |-> c.v[3], codeHash |-> c.v[4],
                            codeSize |-> Undef, version |-> Undef])

\* createPartialAccount refusing any null field instead of six null fields
createPartialAccount_AnyNull(d) ==
  IF d.nonce.k = "null" \/ d.balance.k = "null" \/ d.storageRoot.k = "null"
     \/ d.codeHash.k = "null" \/ d.codeSize.k = "null" \/ d.version.k = "null"
  THEN Err("UnsupportedOperation")
  ELSE LET c == AllOk(<<Coerce(d.nonce), Coerce(d.balance),
                        CoerceBytes(d.storageRoot), CoerceBytes(d.codeHash),
                        Coerce(d.codeSize), Coerce(d.version)>>)
       IN  IF ~c.ok THEN c
           ELSE NewAccount([nonce |-> c.v[1], balance |-> c.v[2],
                            storageRoot |-> c.v[3], codeHash |-> c.v[4],
                            codeSize |-> c.v[5], version |-> c.v[6]])

createPartialAccount(d) ==
  IF d.nonce.k = "null" /\ d.balance.k = "null" /\ d.storageRoot.k = "null"
     /\ d.codeHash.k = "null" /\ d.codeSize.k = "null" /\ d.version.k = "null"
  THEN Err("UnsupportedOperation")
  ELSE LET c == AllOk(<<Coerce(d.nonce), Coerce(d.balance),
                        CoerceBytes(d.storageRoot), CoerceBytes(d.codeHash),
                        Coerce(d.codeSize), Coerce(d.version)>>)
       IN  IF ~c.ok THEN c
           ELSE NewAccount([nonce |-> c.v[1], balance |-> c.v[2],
                            storageRoot |-> c.v[3], codeHash |-> c.v[4],
                            codeSize |-> c.v[5], version |-> c.v[6]])

\* array destructuring: a position past the end is undefined
At(values, i) == IF i <= Len(values) THEN Arg(values[i]) ELSE Undef

\* bytesToBigInt of a destructured element: undefined is no byte string
Parsed(a) ==
  IF a.k = "undefined" \/ a.v.t # "bytes" THEN Err("InvalidInput")
  ELSE Ok(Arg(bytesToBigInt(a.v.b)))

\* a destructured element handed on as a hash
Passed(a) == IF a.k = "undefined" THEN Ok(Undef) ELSE Ok(Arg(a.v.b))

createAccountFromBytesArray(values) ==
  LET c == AllOk(<<Parsed(At(values, 1)), Parsed(At(values, 2)),
                   Passed(At(values, 3)), Passed(At(values, 4))>>)
  IN  IF ~c.ok THEN c
      ELSE NewAccount([nonce |-> c.v[1], balance |-> c.v[2],
                       storageRoot |-> c.v[3], codeHash |-> c.v[4],
                       codeSize |-> Undef, version |-> Undef])

createAccountFromRLP(serialized) ==
  LET values == RlpDecode(serialized) IN
    IF ~values.ok THEN values
    ELSE IF values.v.t # "list" THEN Err("InvalidInput")
    ELSE createAccountFromBytesArray(values.v.items)

\* handleNullIndicator taking an empty value (an encoded 0) for null
handleNullIndicator_EmptyIsNull(values) ==
  IF Len(values) = 0 THEN Ok(Null)
  ELSE LET nullIndicator == bytesToInt(values[1].b) IN
    IF nullIndicator = 0 THEN Ok(Null)
    ELSE IF nullIndicator > 1 THEN Err("InvalidInput")
    ELSE IF Len(values) < 2 THEN Err("InvalidInput")
    ELSE IF Len(values[2].b) = 0 THEN Ok(Null)
    ELSE Ok(Some(values[2].b))

\* the value of one per-field list: Null, or the second element
handleNullIndicator(values) ==
  IF Len(values) = 0 THEN Ok(Null)
  ELSE LET nullIndicator == bytesToInt(values[1].b) IN
    IF nullIndicator = 0 THEN Ok(Null)
    ELSE IF nullIndicator > 1 THEN Err("InvalidInput")
    ELSE IF Len(values) < 2 THEN Err("InvalidInput")
    ELSE Ok(Some(values[2].b))

createPartialAccountFromRLP(serialized) ==
  LET values == RlpDecode(serialized) IN
    IF ~values.ok THEN values
    ELSE IF values.v.t # "list" THEN Err("InvalidInput")
    ELSE IF \E i \in 1..Len(values.v.items) : values.v.items[i].t # "list"
    THEN Err("InvalidInput")
    ELSE
      LET mapped == AllOk([i \in 1..Len(values.v.items) |->
                             handleNullIndicator(values.v.items[i].items)])
          \* null stays null, bytes become an integer
          number(x) == IF x.k = "undefined" THEN Err("InvalidInput")
                       ELSE IF IsNull(x.v) THEN Ok(ArgNull)
                       ELSE Ok(Arg(bytesToBigInt(Val(x.v))))
          hash(x) == IF x.k = "undefined" THEN Ok(Undef)
                     ELSE IF IsNull(x.v) THEN Ok(ArgNull)
                     ELSE Ok(Arg(Val(x.v)))
      IN  IF ~mapped.ok THEN mapped
          ELSE LET c == AllOk(<<number(At(mapped.v, 1)), number(At(mapped.v, 2)),
                                hash(At(mapped.v, 3)), hash(At(mapped.v, 4)),
                                number(At(mapped.v, 5)), number(At(mapped.v, 6))>>)
               IN  IF ~c.ok THEN c
                   ELSE createPartialAccount(
                          [nonce |-> c.v[1], balance |-> c.v[2],
                           storageRoot |-> c.v[3], codeHash |-> c.v[4],
                           codeSize |-> c.v[5], version |-> c.v[6]])

----------------------------------------------------------------------------
(* State-sync account body codec *)

accountBodyFromSlim(b) ==
  <<b[1], b[2],
    IF Len(b[3]) = 0 THEN KECCAK256_RLP ELSE b[3],
    IF Len(b[4]) = 0 THEN KECCAK256_NULL ELSE b[4]>>

\* accountBodyToSlim with the two default constants exchanged
accountBodyToSlim_Exchanged(b) ==
  <<b[1], b[2],
    IF equalsBytes(b[3], KECCAK256_NULL) THEN emptyUint8Arr ELSE b[3],
    IF equalsBytes(b[4], KECCAK256_RLP) THEN emptyUint8Arr ELSE b[4]>>

accountBodyToSlim(b) ==
  <<b[1], b[2],
    IF equalsBytes(b[3], KECCAK256_RLP) THEN emptyUint8Arr ELSE b[3],
    IF equalsBytes(b[4], KECCAK256_NULL) THEN emptyUint8Arr ELSE b[4]>>

accountBodyToRLP(b, couldBeSlim) ==
  LET accountBody == IF couldBeSlim THEN accountBodyFromSlim(b) ELSE b
  IN  RlpEncode(L([i \in 1..4 |-> B(accountBody[i])]))

----------------------------------------------------------------------------
(* Typed transaction envelope helpers *)

\* validateYParity also accepting the legacy recovery ids 27 and 28
validateYParity_Legacy(t) ==
  [tx |-> t,
   out |-> IF ~IsNull(t.v) /\ Val(t.v) \notin {BIGINT_0, BIGINT_1, 27, 28}
           THEN Err("InvalidInput")
           ELSE Ok(TRUE)]

\* tx.v is an option: Null is undefined.  The outcome, and tx after the call.
validateYParity(t) ==
  [tx |-> t,
   out |-> IF ~IsNull(t.v) /\ Val(t.v) # BIGINT_0 /\ Val(t.v) # BIGINT_1
           THEN Err("InvalidInput")
           ELSE Ok(TRUE)]

----------------------------------------------------------------------------
(* Inputs *)

MaxNonce == 1
MaxV == 28
MaxTxType == 4

Hash11 == [i \in 1..HashLen |-> 17]
Short31 == [i \in 1..(HashLen - 1) |-> 17]
Long33 == [i \in 1..(HashLen + 1) |-> 17]

\* in-bound values of each field, and one out-of-bound value each
InBound(f) ==
  CASE f = "nonce" -> (0..MaxNonce) \cup {5}
    [] f = "balance" -> {0, 1000}
    [] f = "storageRoot" -> {KECCAK256_RLP, Hash11}
    [] f = "codeHash" -> {KECCAK256_NULL, Hash11}
    [] f = "codeSize" -> {0, 3}
    [] f = "version" -> {0, 1}

OutOfBound(f) ==
  CASE f = "storageRoot" -> {Short31}
    [] f = "codeHash" -> {Long33}
    [] OTHER -> {-1}

Values(f) == InBound(f) \cup OutOfBound(f)

Args(f) == {Undef, ArgNull} \cup {Arg(v) : v \in Values(f)}

PartialAccountData ==
  [nonce : Args("nonce"), balance : Args("balance"),
   storageRoot : Args("storageRoot"), codeHash : Args("codeHash"),
   codeSize : Args("codeSize"), version : Args("version")]

AccountData ==
  [nonce : Args("nonce"), balance : Args("balance"),
   storageRoot : Args("storageRoot"), codeHash : Args("codeHash")]

\* byte-string arrays handed to createAccountFromBytesArray
BytesArrays ==
  {<<B(n), B(b), B(s), B(c)>> :
     n \in {<<>>, <<5>>}, b \in {<<>>, <<3, 232>>},
     s \in Values("storageRoot"), c \in Values("codeHash")}

AccountBodyBytes ==
  {<<n, b, s, c>> :
     n \in {<<>>, <<1>>, <<5>>}, b \in {<<>>, <<3, 232>>},
     s \in {KECCAK256_RLP, KECCAK256_NULL, Hash11, emptyUint8Arr, Short31},
     c \in {KECCAK256_RLP, KECCAK256_NULL, Hash11, emptyUint8Arr, Long33}}

Txs == [type : 1..MaxTxType, v : {Null} \cup {Some(y) : y \in 0..MaxV}]

NoOp == [name |-> "none"]
NoBody == <<emptyUint8Arr, emptyUint8Arr, emptyUint8Arr, emptyUint8Arr>>
NoTx == [type |-> 1, v |-> Null]

----------------------------------------------------------------------------
(* The life of one Account: constructed once, then read, written, tested   *)
(* and serialized.  acct is Null until a construction succeeds; op is the  *)
(* last call with its arguments and outcome.                               *)

Init == acct = Null /\ op = NoOp /\ body = NoBody /\ tx = NoTx

Fresh == op.name = "none"

Constructed(name, d, r) ==
  /\ acct' = IF r.ok THEN Some(r.v) ELSE Null
  /\ op' = [name |-> name, args |-> d, result |-> r]
  /\ UNCHANGED <<body, tx>>

New ==
  /\ Fresh
  /\ \E d \in PartialAccountData : Constructed("new Account", d, NewAccount(d))

CreateAccount ==
  /\ Fresh
  /\ \E d \in AccountData : Constructed("createAccount", d, createAccount(d))

CreatePartialAccount ==
  /\ Fresh
  /\ \E d \in PartialAccountData :
       Constructed("createPartialAccount", d, createPartialAccount(d))

CreateAccountFromBytesArray ==
  /\ Fresh
  /\ \E values \in BytesArrays :
       Constructed("createAccountFromBytesArray", values,
                   createAccountFromBytesArray(values))

Called(o) == /\ ~IsNull(acct) /\ op' = o /\ UNCHANGED <<acct, body, tx>>

GetField ==
  \E f \in Fields :
    Called([name |-> "get", field |-> f, result |-> Get(Val(acct), f)])

SetField ==
  \E f \in Fields : \E v \in Values(f) :
    /\ ~IsNull(acct)
    /\ acct' = Some(Set(Val(acct), f, v))
    /\ op' = [name |-> "set", field |-> f, value |-> v]
    /\ UNCHANGED <<body, tx>>

IsContract == Called([name |-> "isContract", result |-> isContract(Val(acct))])

IsEmpty == Called([name |-> "isEmpty", result |-> isEmpty(Val(acct))])

Serialize == Called([name |-> "serialize", result |-> serialize(Val(acct))])

SerializeWithPartialInfo ==
  Called([name |-> "serializeWithPartialInfo",
          result |-> serializeWithPartialInfo(Val(acct))])

\* decoding what the last call serialized; the new Account is the outcome
CreateAccountFromRLP ==
  /\ op.name = "serialize" /\ op.result.ok
  /\ Called([name |-> "createAccountFromRLP", input |-> op.result.v,
             result |-> createAccountFromRLP(op.result.v)])

CreatePartialAccountFromRLP ==
  /\ op.name = "serializeWithPartialInfo" /\ op.result.ok
  /\ Called([name |-> "createPartialAccountFromRLP", input |-> op.result.v,
             result |-> createPartialAccountFromRLP(op.result.v)])

Next ==
  \/ New
  \/ CreateAccount
  \/ CreatePartialAccount
  \/ CreateAccountFromBytesArray
  \/ GetField
  \/ SetField
  \/ IsContract
  \/ IsEmpty
  \/ Serialize
  \/ SerializeWithPartialInfo
  \/ CreateAccountFromRLP
  \/ CreatePartialAccountFromRLP

Spec == Init /\ [][Next]_vars

----------------------------------------------------------------------------
(* The slim codec applied to account bodies *)

InitSlim == acct = Null /\ op = NoOp /\ body \in AccountBodyBytes /\ tx = NoTx

AccountBodyToSlim ==
  /\ body' = accountBodyToSlim(body)
  /\ op' = [name |-> "accountBodyToSlim", arg |-> body, result |-> body']
  /\ UNCHANGED <<acct, tx>>

\* slimOf: the body the argument was made slim from, when the last call did that
AccountBodyFromSlim ==
  /\ body' = accountBodyFromSlim(body)
  /\ op' = [name |-> "accountBodyFromSlim", arg |-> body, result |-> body',
            slimOf |-> IF op.name = "accountBodyToSlim" THEN Some(op.arg) ELSE Null]
  /\ UNCHANGED <<acct, tx>>

AccountBodyToRLP ==
  \E couldBeSlim \in BOOLEAN :
    /\ op' = [name |-> "accountBodyToRLP", arg |-> body, couldBeSlim |-> couldBeSlim,
              result |-> accountBodyToRLP(body, couldBeSlim)]
    /\ UNCHANGED <<acct, body, tx>>

NextSlim == AccountBodyToSlim \/ AccountBodyFromSlim \/ AccountBodyToRLP

SpecSlim == InitSlim /\ [][NextSlim]_vars

----------------------------------------------------------------------------
(* validateYParity applied to transactions *)

InitTx == acct = Null /\ op = NoOp /\ body = NoBody /\ tx \in Txs

ValidateYParity ==
  LET r == validateYParity(tx) IN
    /\ tx' = r.tx
    /\ op' = [name |-> "validateYParity", arg |-> tx, result |-> r.out]
    /\ UNCHANGED <<acct, body>>

NextTx == ValidateYParity

SpecTx == InitTx /\ [][NextTx]_vars

----------------------------------------------------------------------------
(* Properties *)

Present(a, f) == ~IsNull(a[f])
Failed(r, kind) == ~r.ok /\ r.err = kind
Returned(r, v) == r.ok /\ r.v = v
HasCode(a) == Present(a, "codeHash") /\ Val(a.codeHash) # KECCAK256_NULL

\* the bound of the data model on a present field
WithinBound(a, f) ==
  IF f \in HashFields THEN Len(Val(a[f])) = HashLen ELSE Val(a[f]) >= 0

ConstructorNames ==
  {"new Account", "createAccount", "createPartialAccount", "createAccountFromBytesArray"}

\* C1: isContract() fails with MissingData when codeHash and codeSize are both
\* absent; otherwise it returns true exactly when codeHash is present and
\* differs from the empty-code constant or codeSize is present and non-zero;
\* a present non-empty codeHash alone makes it true, whatever codeSize is.
C1_IsContract ==
  op.name = "isContract" =>
    LET a == Val(acct) IN
      /\ (~Present(a, "codeHash") /\ ~Present(a, "codeSize"))
           <=> Failed(op.result, "MissingData")
      /\ (Present(a, "codeHash") \/ Present(a, "codeSize")) =>
           Returned(op.result,
                    HasCode(a) \/ (Present(a, "codeSize") /\ Val(a.codeSize) # 0))
      /\ HasCode(a) => Returned(op.result, TRUE)

\* isContract() returned true for a non-empty codeHash with codeSize 0
C1_Witness ==
  /\ op.name = "isContract"
  /\ HasCode(Val(acct))
  /\ Val(acct).codeSize = Some(0)
  /\ Returned(op.result, TRUE)

\* C2: isEmpty() returns false when balance is present and non-zero or
\* codeHash is present and differs from the empty-code constant, whatever the
\* presence of the other fields; otherwise, with the three fields present, it
\* returns whether balance = 0, nonce = 0 and codeHash is the empty-code
\* constant.
C2_IsEmptyAsSpecified ==
  op.name = "isEmpty" =>
    LET a == Val(acct) IN
      IF (Present(a, "balance") /\ Val(a.balance) # 0) \/ HasCode(a)
      THEN Returned(op.result, FALSE)
      ELSE (Present(a, "balance") /\ Present(a, "nonce") /\ Present(a, "codeHash"))
             => Returned(op.result,
                         Val(a.balance) = 0 /\ Val(a.nonce) = 0
                         /\ Val(a.codeHash) = KECCAK256_NULL)

\* C3 as stated: isEmpty() on an Account whose nonce is absent always fails
\* with NotLoaded, whatever balance and codeHash are.
C3_NonceAbsentAlwaysFails ==
  (op.name = "isEmpty" /\ ~Present(Val(acct), "nonce"))
    => Failed(op.result, "NotLoaded")

\* C3 amended: isEmpty() on an Account whose nonce is absent returns false
\* when balance is present and non-zero, and fails with NotLoaded in every
\* other case; it never returns true.
C3_NonceAbsent ==
  (op.name = "isEmpty" /\ ~Present(Val(acct), "nonce")) =>
    LET a == Val(acct) IN
      IF Present(a, "balance") /\ Val(a.balance) # 0
      THEN Returned(op.result, FALSE)
      ELSE Failed(op.result, "NotLoaded")

\* isEmpty() with nonce absent, balance 0 and a non-empty codeHash failed
C3_Witness ==
  /\ op.name = "isEmpty"
  /\ ~Present(Val(acct), "nonce")
  /\ Val(acct).balance = Some(0)
  /\ HasCode(Val(acct))
  /\ Failed(op.result, "NotLoaded")

\* C4: after a successful construction every present field is within its
\* bound (nonce, balance, codeSize and version non-negative, storageRoot and
\* codeHash of 32 bytes), and the base constructor given a present argument
\* out of its bound fails with InvalidInput.
C4_ConstructedWithinBounds ==
  op.name \in ConstructorNames =>
    /\ op.result.ok =>
         \A f \in Fields : Present(Val(acct), f) => WithinBound(Val(acct), f)
    /\ (op.name = "new Account"
        /\ \E f \in Fields : op.args[f].k = "value" /\ op.args[f].v \in OutOfBound(f))
         => Failed(op.result, "InvalidInput")

\* C5: a read fails with NotLoaded exactly when the field is absent and else
\* returns the stored value, leaving the Account as it was; a write stores
\* the given value, in bound or not, makes the field readable and leaves the
\* other five fields as they were.
C5_Accessors ==
  [][/\ op'.name = "get" =>
          /\ acct' = acct
          /\ ~Present(Val(acct), op'.field) <=> Failed(op'.result, "NotLoaded")
          /\ Present(Val(acct), op'.field) =>
               Returned(op'.result, Val(Val(acct)[op'.field]))
     /\ op'.name = "set" =>
          /\ Val(acct')[op'.field] = Some(op'.value)
          /\ Get(Val(acct'), op'.field) = Ok(op'.value)
          /\ \A g \in Fields \ {op'.field} : Val(acct')[g] = Val(acct)[g]]_vars

\* a storageRoot of 31 bytes, which only a write can store, was read back
C5_Witness ==
  /\ op.name = "get"
  /\ op.field = "storageRoot"
  /\ Returned(op.result, Short31)

\* every present field of a is within its bound
AllWithinBounds(a) == \A f \in Fields : Present(a, f) => WithinBound(a, f)

CoreFields == {"nonce", "balance", "storageRoot", "codeHash"}

InferredCodeSize(a) ==
  IF ~Present(a, "codeSize") /\ Present(a, "codeHash") /\ ~HasCode(a)
  THEN Some(0) ELSE a.codeSize

SlimRoundTrips(b) == Len(b[3]) = HashLen /\ Len(b[4]) = HashLen

\* C9: accountBodyToSlim replaces exactly a storageRoot and a codeHash equal
\* to their default constant by the empty byte string, and
\* accountBodyFromSlim of its result is the body again when storageRoot and
\* codeHash are 32 bytes.
C9_SlimRoundTrip ==
  /\ op.name = "accountBodyToSlim" =>
       /\ op.result[1] = op.arg[1] /\ op.result[2] = op.arg[2]
       /\ op.result[3] = IF op.arg[3] = KECCAK256_RLP THEN <<>> ELSE op.arg[3]
       /\ op.result[4] = IF op.arg[4] = KECCAK256_NULL THEN <<>> ELSE op.arg[4]
  /\ (op.name = "accountBodyFromSlim" /\ Present(op, "slimOf")
      /\ SlimRoundTrips(Val(op.slimOf)))
       => op.result = Val(op.slimOf)

\* a body with the default storageRoot and the other default as codeHash
\* came back from its slim form
C9_Witness ==
  /\ op.name = "accountBodyFromSlim"
  /\ Present(op, "slimOf")
  /\ Val(op.slimOf)[3] = KECCAK256_RLP
  /\ Val(op.slimOf)[4] = KECCAK256_RLP
  /\ op.arg[3] = <<>>
  /\ op.result = Val(op.slimOf)

\* C10: validateYParity returns for v absent, 0 or 1, fails with InvalidInput
\* for every other v, and leaves tx as it was.
C10_ValidateYParity ==
  op.name = "validateYParity" =>
    /\ tx = op.arg
    /\ IF op.arg.v \in {Null, Some(0), Some(1)}
       THEN op.result.ok
       ELSE Failed(op.result, "InvalidInput")

\* v = 27 was rejected
C10_Witness ==
  /\ op.name = "validateYParity"
  /\ op.arg.v = Some(27)
  /\ Failed(op.result, "InvalidInput")

C12_EmptyIsNoContract ==
  op.name \in {"isEmpty", "isContract"} =>
    LET empty == isEmpty(Val(acct))
        contract == isContract(Val(acct))
    IN  (empty.ok /\ contract.ok /\ empty.v) => ~contract.v

====
